---- MODULE Spec2Model ----
(***************************************************************************)
(* State-machine model of src/app.js (geoportal of Natividade): layer      *)
(* loading and toggling, hover styling and the thematic mapping engine     *)
(* (classifier, color mapper, apply/reset, legend).                        *)
(***************************************************************************)
EXTENDS Integers, Sequences, FiniteSets, TLC

(***************************************************************************)
(* Bounds of the model.                                                    *)
(***************************************************************************)
\* loads in one run that are in flight or have created a layer object
MaxLoads == 2
\* longest input of the classifier in the pure-function specification
MaxLen == 6
\* largest class count in the pure-function specification
MaxK == 6

(***************************************************************************)
(* JavaScript values: undefined, null, NaN, numbers and strings.  A string *)
(* is a sequence of one-character strings.                                 *)
(***************************************************************************)
Undef == [t |-> "undefined", n |-> 0, s |-> <<>>]
Null == [t |-> "null", n |-> 0, s |-> <<>>]
NaN == [t |-> "NaN", n |-> 0, s |-> <<>>]
Num(n) == [t |-> "num", n |-> n, s |-> <<>>]
Str(s) == [t |-> "str", n |-> 0, s |-> s]

Digits == {"0", "1", "2", "3", "4", "5", "6", "7", "8", "9"}
DigitVal(c) ==
    CASE c = "0" -> 0 [] c = "1" -> 1 [] c = "2" -> 2 [] c = "3" -> 3
      [] c = "4" -> 4 [] c = "5" -> 5 [] c = "6" -> 6 [] c = "7" -> 7
      [] c = "8" -> 8 [] c = "9" -> 9
DigitChar(d) == <<"0", "1", "2", "3", "4", "5", "6", "7", "8", "9">>[d + 1]

IsSpace(c) == c = " "

RECURSIVE TrimLeft(_)
TrimLeft(s) == IF s # <<>> /\ IsSpace(Head(s)) THEN TrimLeft(Tail(s)) ELSE s

RECURSIVE TrimRight(_)
TrimRight(s) ==
    IF s # <<>> /\ IsSpace(s[Len(s)]) THEN TrimRight(SubSeq(s, 1, Len(s) - 1)) ELSE s

\* the longest prefix of s made of digits
RECURSIVE DigitPrefix(_)
DigitPrefix(s) ==
    IF s # <<>> /\ Head(s) \in Digits THEN <<Head(s)>> \o DigitPrefix(Tail(s)) ELSE <<>>

\* the number written by a non-empty sequence of digits
RECURSIVE DigitsToNat(_)
DigitsToNat(s) ==
    IF s = <<>> THEN 0 ELSE 10 * DigitsToNat(SubSeq(s, 1, Len(s) - 1)) + DigitVal(s[Len(s)])

\* the decimal digits of a natural number
RECURSIVE NatToDigits(_)
NatToDigits(n) ==
    IF n < 10 THEN <<DigitChar(n)>> ELSE NatToDigits(n \div 10) \o <<DigitChar(n % 10)>>

\* parseFloat(v): of a string, the number written by the longest numeric
\* prefix after leading white space, NaN when there is none; a number is
\* itself; undefined and null give NaN.
parseFloatMissingIsZero(v) ==
    CASE v.t = "num" -> v
      [] v.t = "str" ->
            LET p == DigitPrefix(TrimLeft(v.s))
            IN  IF p = <<>> THEN NaN ELSE Num(DigitsToNat(p))
      [] OTHER -> Num(0)

parseFloat(v) ==
    CASE v.t = "num" -> v
      [] v.t = "str" ->
            LET p == DigitPrefix(TrimLeft(v.s))
            IN  IF p = <<>> THEN NaN ELSE Num(DigitsToNat(p))
      [] OTHER -> NaN

\* ToNumber(v), the coercion behind isNaN(v) and v <= x: the whole trimmed
\* string must be a number, the empty string is 0, null is 0, undefined is NaN.
ToNumber(v) ==
    CASE v.t = "num" -> v
      [] v.t = "str" ->
            LET w == TrimRight(TrimLeft(v.s))
            IN  IF w = <<>> THEN Num(0)
                ELSE IF DigitPrefix(w) = w THEN Num(DigitsToNat(w)) ELSE NaN
      [] v.t = "null" -> Num(0)
      [] OTHER -> NaN

isNaN(v) == ToNumber(v).t = "NaN"

\* a <= b of JavaScript for b a number or undefined: false when either side is NaN
LessEq(a, b) ==
    LET x == ToNumber(a)
        y == ToNumber(b)
    IN  x.t = "num" /\ y.t = "num" /\ x.n <= y.n

\* n.toLocaleString('pt-BR', { maximumFractionDigits: 1 }) of a natural
\* number: its digits in groups of three separated by "."
RECURSIVE GroupThousands(_)
GroupThousands(d) ==
    IF Len(d) <= 3 THEN d
    ELSE GroupThousands(SubSeq(d, 1, Len(d) - 3)) \o <<".">> \o SubSeq(d, Len(d) - 2, Len(d))

toLocaleString(v) == GroupThousands(NatToDigits(v.n))

(***************************************************************************)
(* Configuration (CONFIG.layers) and the fixed colors.                     *)
(***************************************************************************)
LayerNames == {"distritos", "setores"}

ConfigColor(layerName) ==
    CASE layerName = "distritos" -> "#667eea"
      [] layerName = "setores" -> "#f093fb"

NoDataColor == "#ccc"

Palette == <<"#ffffb2", "#fecc5c", "#fd8d3c", "#f03b20", "#bd0026">>

Classes == 5


Attributes == {"v0001", "v0002"}

\* the values a feature property takes: missing, numbers, the empty string,
\* a numeric string, a string with a numeric prefix only
DataValues ==
    {Undef, Num(10), Num(20), Str(<<>>), Str(<<"1", "5">>), Str(<<"1", "a">>)}

\* the census-sector files of the specification of the whole page: one
\* feature, each property missing or a number
SectorFiles == {<<p>> : p \in [Attributes -> {Undef, Num(10), Num(20)}]}

\* the census-sector files of the specification of the thematic engine: two
\* features, each property any of DataValues
RichSectorFiles == {<<p, q>> : p, q \in [Attributes -> DataValues]}

NULL == "null"

(***************************************************************************)
(* Pure functions of the thematic engine.                                  *)
(***************************************************************************)
\* array[index] of JavaScript, 0-based: undefined outside the array
At(array, index) ==
    IF index >= 0 /\ index < Len(array) THEN array[index + 1] ELSE Undef

\* colors[index] for an array of color strings
ColorAt(colors, index) ==
    IF index >= 0 /\ index < Len(colors) THEN colors[index + 1] ELSE "undefined"

\* values.sort((a, b) => a - b) on numbers
RECURSIVE InsertSorted(_, _)
InsertSorted(sorted, v) ==
    IF sorted = <<>> THEN <<v>>
    ELSE IF v.n < Head(sorted).n THEN <<v>> \o sorted
         ELSE <<Head(sorted)>> \o InsertSorted(Tail(sorted), v)

RECURSIVE SortAscending(_)
SortAscending(values) ==
    IF values = <<>> THEN <<>>
    ELSE InsertSorted(SortAscending(SubSeq(values, 1, Len(values) - 1)), values[Len(values)])

calculateJenks_StepFromOne(values, classes) ==
    LET step == Len(values) \div classes
    IN  [i \in 1..(classes - 1) |-> At(values, i * step + 1)]
            \o <<At(values, Len(values) - 1)>>

\* the step rounded up instead of down
calculateJenks_CeilStep(values, classes) ==
    LET step == (Len(values) + classes - 1) \div classes
    IN  [i \in 1..(classes - 1) |-> At(values, i * step)]
            \o <<At(values, Len(values) - 1)>>

calculateJenks_NoMax(values, classes) ==
    LET step == Len(values) \div classes
    IN  [i \in 1..classes |-> At(values, i * step)]

calculateJenks(values, classes) ==
    LET step == Len(values) \div classes
    IN  [i \in 1..(classes - 1) |-> At(values, i * step)]
            \o <<At(values, Len(values) - 1)>>

\* the index of the first break the value is <= to, or -1
FirstBreakIndex(value, breaks) ==
    LET hits == {i \in 0..(Len(breaks) - 1) : LessEq(value, breaks[i + 1])}
    IN  IF hits = {} THEN -1 ELSE CHOOSE i \in hits : \A j \in hits : i <= j

\* the color of the break the value is equal to
getColorForValue_ExactMatch(value, breaks, colors) ==
    IF value.t = "undefined" \/ value.t = "null" \/ isNaN(value) THEN NoDataColor
    ELSE LET hits == {i \in 0..(Len(breaks) - 1) :
                        LessEq(value, breaks[i + 1]) /\ LessEq(breaks[i + 1], value)}
         IN  IF hits # {} THEN ColorAt(colors, CHOOSE i \in hits : \A j \in hits : i <= j)
             ELSE ColorAt(colors, Len(colors) - 1)

getColorForValue_StrictLess(value, breaks, colors) ==
    IF value.t = "undefined" \/ value.t = "null" \/ isNaN(value) THEN NoDataColor
    ELSE LET hits == {i \in 0..(Len(breaks) - 1) :
                        LessEq(value, breaks[i + 1]) /\ ~LessEq(breaks[i + 1], value)}
         IN  IF hits # {} THEN ColorAt(colors, CHOOSE i \in hits : \A j \in hits : i <= j)
             ELSE ColorAt(colors, Len(colors) - 1)

getColorForValue(value, breaks, colors) ==
    IF value.t = "undefined" \/ value.t = "null" \/ isNaN(value) THEN NoDataColor
    ELSE LET i == FirstBreakIndex(value, breaks)
         IN  IF i >= 0 THEN ColorAt(colors, i)
             ELSE ColorAt(colors, Len(colors) - 1)

getFeatureStyle(color) ==
    [fillColor |-> color, weight |-> 2, opacity |-> 1, color |-> color,
     dashArray |-> "", fillOpacity |-> "0.3"]

\* layer.setStyle(patch): the options named in patch replace the layer's
setStyle(style, patch) ==
    [k \in DOMAIN style |-> IF k \in DOMAIN patch THEN patch[k] ELSE style[k]]

\* the entries updateLegend renders: one per break, from the previous break
\* (0 for the first) to the break, with the color of the same index
legendEntries_FromMin(breaks, colors) ==
    [i \in 1..Len(breaks) |->
        [start |-> toLocaleString(IF i = 1 THEN breaks[1] ELSE breaks[i - 1]),
         end |-> toLocaleString(breaks[i]),
         color |-> ColorAt(colors, i - 1)]]

legendEntries(breaks, colors) ==
    [i \in 1..Len(breaks) |->
        [start |-> toLocaleString(IF i = 1 THEN Num(0) ELSE breaks[i - 1]),
         end |-> toLocaleString(breaks[i]),
         color |-> ColorAt(colors, i - 1)]]

(***************************************************************************)
(* State of the page.                                                      *)
(***************************************************************************)
VARIABLES
    checked,                  \* the layer checkboxes (layer-<name>.checked)
    dataLayers,               \* dataLayers[name]: the layer object held, 0 if absent; the
                              \* objects L.geoJSON makes for a name are numbered 1, 2, ...
    styles,                   \* styles[name][f]: options of feature f of dataLayers[name]
    onMap,                    \* the layer objects added to the map: <<name, number>>
    pendingToggle,            \* loadLayer calls of toggle handlers awaiting fetch/json
    startupPending,           \* the loadLayer call of loadDataLayers awaits fetch/json
    geojson,                  \* the parsed census-sector file: <<>> until parsed
    loadingHidden,            \* loadingIndicator has class 'hidden'
    panelsShown,              \* attributeSelector and thematicMappingPanel displayed
    currentThematicAttribute,
    thematicBreaks,
    thematicColors,
    legend,                   \* legendContainer: display, title and entries
    hovered,                  \* the feature under the pointer, with the style it had
                              \* before mouseover: <<name, feature, style>>, or <<>>
    last,                     \* the event handled last, with its alerts
    call                      \* the pure-function call made last

appVars ==
    <<checked, dataLayers, styles, onMap, pendingToggle, startupPending,
      geojson, loadingHidden, panelsShown, currentThematicAttribute,
      thematicBreaks, thematicColors, legend, hovered, last>>

vars == <<appVars, call>>

\* an event: the handler that ran, its layer, attribute and feature, whether
\* it did its work (of mouseout: whether it left the style the feature had
\* before mouseover), the alerts it raised, and the call of the thematic
\* controller or the mouseover that ran right before it, if one did
Event(op, layer, attr, feat, ok, alerts) ==
    [op |-> op, layer |-> layer, attr |-> attr, feat |-> feat, ok |-> ok,
     alerts |-> alerts,
     before |-> IF last.op \in {"apply", "reset", "mouseover"}
                THEN [op |-> last.op, attr |-> last.attr, ok |-> last.ok]
                ELSE [op |-> "other", attr |-> NULL, ok |-> TRUE]]

NoCall == [fn |-> "none", value |-> Undef, values |-> <<>>, classes |-> 0,
           breaks |-> <<>>, colors |-> <<>>, result |-> <<>>, color |-> "",
           fills |-> <<>>, done |-> FALSE]

\* the loads in flight and the layer objects created
TotalLoads ==
    (IF startupPending THEN 1 ELSE 0)
        + pendingToggle["distritos"] + pendingToggle["setores"]
        + dataLayers["distritos"] + dataLayers["setores"]

\* properties[attribute] of census-sector feature feat
Property(feat, attribute) == geojson[feat][attribute]

\* the features of a layer object: those of the parsed file for the census
\* sectors, one for the districts
FeaturesOf(layerName, file) == IF layerName = "setores" THEN DOMAIN file ELSE {1}

(***************************************************************************)
(* Startup: initMap has run; loadDataLayers has shown the loading          *)
(* indicator and its loadLayer('distritos') awaits the fetch.              *)
(***************************************************************************)
AppInit ==
    /\ checked \in {c \in [LayerNames -> BOOLEAN] : ~c["setores"]}
    /\ dataLayers = [name \in LayerNames |-> 0]
    /\ styles = [name \in LayerNames |-> <<>>]
    /\ onMap = {}
    /\ pendingToggle = [name \in LayerNames |-> 0]
    /\ startupPending = TRUE
    /\ geojson = <<>>
    /\ loadingHidden = FALSE
    /\ panelsShown = FALSE
    /\ currentThematicAttribute = NULL
    /\ thematicBreaks = <<>>
    /\ thematicColors = <<>>
    /\ legend = [shown |-> FALSE, title |-> <<>>, entries |-> <<>>]
    /\ hovered = <<>>
    /\ last = [op |-> "init", layer |-> "", attr |-> NULL, feat |-> 0, ok |-> TRUE,
               alerts |-> <<>>, before |-> [op |-> "other", attr |-> NULL, ok |-> TRUE]]

Init == AppInit /\ call = NoCall

(***************************************************************************)
(* loadLayer                                                               *)
(***************************************************************************)
\* the style a feature of a new layer object has: the style option of
\* L.geoJSON, then the black border of the distritos layer
InitialStyle(layerName) ==
    IF layerName = "distritos"
    THEN setStyle(getFeatureStyle(ConfigColor(layerName)), [color |-> "#000000", weight |-> 2])
    ELSE getFeatureStyle(ConfigColor(layerName))

\* the layer object the next L.geoJSON call for layerName makes: loadLayer
\* stores every object it makes, so the objects made so far are numbered up
\* to the one held
NewObject(layerName) == dataLayers[layerName] + 1

\* loadLayer from its fetch to "dataLayers[layerName] = layer": a new layer
\* object is created and stored
loadLayerBody(layerName) ==
    /\ dataLayers' = [dataLayers EXCEPT ![layerName] = NewObject(layerName)]
    /\ IF layerName = "setores" /\ geojson = <<>>
       THEN geojson' \in SectorFiles
       ELSE geojson' = geojson
    /\ styles' = [styles EXCEPT ![layerName] =
                     [f \in FeaturesOf(layerName, geojson') |-> InitialStyle(layerName)]]

\* "Add to map if checkbox is checked" at the end of loadLayer
AddedByLoad(layerName) ==
    IF checked[layerName] THEN {<<layerName, NewObject(layerName)>>} ELSE {}

\* the pointer is no longer over a feature of an object that was replaced
HoverAfterLoad(layerName) ==
    IF hovered # <<>> /\ hovered[1] = layerName THEN <<>> ELSE hovered

\* loadDataLayers resumes after its loadLayer('distritos') succeeded
StartupLoaded ==
    /\ startupPending
    /\ startupPending' = FALSE
    /\ loadLayerBody("distritos")
    /\ onMap' = onMap \cup AddedByLoad("distritos")
    /\ hovered' = HoverAfterLoad("distritos")
    /\ loadingHidden' = TRUE
    /\ last' = Event("startupLoaded", "distritos", NULL, 0, TRUE, <<>>)
    /\ UNCHANGED <<checked, pendingToggle, panelsShown,
                   currentThematicAttribute, thematicBreaks, thematicColors, legend,
                   call>>

\* the fetch or the parse failed: loadLayer alerts and rethrows, loadDataLayers
\* catches, hides the loading indicator and alerts
StartupFailed ==
    /\ startupPending
    /\ startupPending' = FALSE
    /\ loadingHidden' = TRUE
    /\ last' = Event("startupFailed", "distritos", NULL, 0, FALSE,
                     <<"Erro ao carregar camada distritos", "Erro ao carregar camadas">>)
    /\ UNCHANGED <<checked, dataLayers, styles, onMap, pendingToggle,
                   geojson, panelsShown, currentThematicAttribute, thematicBreaks,
                   thematicColors, legend, hovered, call>>

(***************************************************************************)
(* Thematic mapping                                                        *)
(***************************************************************************)
\* step 1 of applyThematicMapping: the parseFloat of every feature's value
\* that is not NaN, in feature order
RECURSIVE ExtractValuesUpTo(_, _)
ExtractValuesUpTo(attribute, n) ==
    IF n = 0 THEN <<>>
    ELSE LET val == parseFloat(Property(n, attribute))
         IN  IF val.t = "NaN" THEN ExtractValuesUpTo(attribute, n - 1)
             ELSE Append(ExtractValuesUpTo(attribute, n - 1), val)

\* step 1 without the isNaN filter: every feature's parseFloat is pushed
ExtractValues_KeepNaN(attribute) ==
    [f \in 1..Len(geojson) |-> parseFloat(Property(f, attribute))]

ExtractValues(attribute) == ExtractValuesUpTo(attribute, Len(geojson))

\* step 4 with the colors taken from the breaks stored before the call
ThematicStyle_StoredBreaks(feat, attribute, breaks, colors) ==
    [fillColor |-> getColorForValue(parseFloat(Property(feat, attribute)),
                                    thematicBreaks, colors),
     fillOpacity |-> "0.8", weight |-> 1, color |-> "#333"]

\* step 4 of applyThematicMapping: the options set on feature feat
ThematicStyle(feat, attribute, breaks, colors) ==
    [fillColor |-> getColorForValue(parseFloat(Property(feat, attribute)), breaks, colors),
     fillOpacity |-> "0.8", weight |-> 1, color |-> "#333"]

updateLegend(attribute, breaks, colors) ==
    [shown |-> TRUE, title |-> <<"Legenda: ", attribute>>,
     entries |-> legendEntries(breaks, colors)]

NoDataAlert == "Nao ha dados numericos validos para este atributo."

\* what applyThematicMapping(attribute) does in the current state
ApplyOutcome(attribute) ==
    IF dataLayers["setores"] = 0 THEN "notLoaded"
    ELSE IF ExtractValues(attribute) = <<>> THEN "noData"
    ELSE "applied"

\* applyThematicMapping with showLoading() ahead of the guard
applyThematicMapping_ShowLoadingFirst(attribute) ==
    IF dataLayers["setores"] = 0
    THEN /\ loadingHidden' = FALSE
         /\ UNCHANGED <<currentThematicAttribute, thematicBreaks,
                        thematicColors, styles, legend>>
    ELSE LET values == ExtractValues(attribute)
             breaks == calculateJenks(SortAscending(values), Classes)
         IN  /\ currentThematicAttribute' = attribute
             /\ loadingHidden' = TRUE
             /\ IF values = <<>>
                THEN UNCHANGED <<thematicBreaks, thematicColors, styles, legend>>
                ELSE /\ thematicBreaks' = breaks
                     /\ thematicColors' = Palette
                     /\ styles' = [styles EXCEPT !["setores"] =
                                      [f \in DOMAIN @ |->
                                          setStyle(@[f], ThematicStyle(f, attribute,
                                                             breaks, Palette))]]
                     /\ legend' = updateLegend(attribute, breaks, Palette)

applyThematicMapping(attribute) ==
    IF dataLayers["setores"] = 0
    THEN UNCHANGED <<loadingHidden, currentThematicAttribute, thematicBreaks,
                     thematicColors, styles, legend>>
    ELSE LET values == ExtractValues(attribute)
             breaks == calculateJenks(SortAscending(values), Classes)
         IN  /\ currentThematicAttribute' = attribute
             /\ loadingHidden' = TRUE
             /\ IF values = <<>>
                THEN UNCHANGED <<thematicBreaks, thematicColors, styles, legend>>
                ELSE /\ thematicBreaks' = breaks
                     /\ thematicColors' = Palette
                     /\ styles' = [styles EXCEPT !["setores"] =
                                      [f \in DOMAIN @ |->
                                          setStyle(@[f], ThematicStyle(f, attribute,
                                                             breaks, Palette))]]
                     /\ legend' = updateLegend(attribute, breaks, Palette)

\* a reset that restores the border and the opacity only
resetStyle_BorderOnly ==
    [weight |-> 2, opacity |-> 1, color |-> ConfigColor("setores"), dashArray |-> "",
     fillOpacity |-> "0.3"]

\* the options resetThematicMapping sets on every feature
resetStyle == getFeatureStyle(ConfigColor("setores"))

\* a reset that flips the display of the legend
resetThematicMapping_ToggleLegend ==
    IF dataLayers["setores"] = 0
    THEN UNCHANGED <<currentThematicAttribute, styles, legend>>
    ELSE /\ currentThematicAttribute' = NULL
         /\ styles' = [styles EXCEPT !["setores"] =
                          [f \in DOMAIN @ |-> setStyle(@[f], resetStyle)]]
         /\ legend' = [legend EXCEPT !.shown = ~@]

\* a reset that leaves the legend as it is
resetThematicMapping_KeepLegend ==
    IF dataLayers["setores"] = 0
    THEN UNCHANGED <<currentThematicAttribute, styles, legend>>
    ELSE /\ currentThematicAttribute' = NULL
         /\ styles' = [styles EXCEPT !["setores"] =
                          [f \in DOMAIN @ |-> setStyle(@[f], resetStyle)]]
         /\ UNCHANGED legend

resetThematicMapping ==
    IF dataLayers["setores"] = 0
    THEN UNCHANGED <<currentThematicAttribute, styles, legend>>
    ELSE /\ currentThematicAttribute' = NULL
         /\ styles' = [styles EXCEPT !["setores"] =
                          [f \in DOMAIN @ |-> setStyle(@[f], resetStyle)]]
         /\ legend' = [legend EXCEPT !.shown = FALSE]

\* applyThematicMapping(attribute), called by the click handler of applyBtn
Apply(attribute) ==
    /\ applyThematicMapping(attribute)
    /\ last' = Event("apply", "setores", attribute, 0,
                     ApplyOutcome(attribute) = "applied",
                     IF ApplyOutcome(attribute) = "noData" THEN <<NoDataAlert>> ELSE <<>>)
    /\ UNCHANGED <<checked, dataLayers, onMap, pendingToggle, startupPending,
                   geojson, panelsShown, hovered, call>>

\* resetThematicMapping(), called by the click handler of resetBtn
Reset ==
    /\ resetThematicMapping
    /\ last' = Event("reset", "setores", NULL, 0, dataLayers["setores"] # 0, <<>>)
    /\ UNCHANGED <<checked, dataLayers, onMap, pendingToggle, startupPending,
                   geojson, loadingHidden, panelsShown, thematicBreaks,
                   thematicColors, hovered, call>>

(***************************************************************************)
(* Hover                                                                   *)
(***************************************************************************)
\* a highlight with the fill opacity of the point markers
highlightPatch_FixedOpacity(style) ==
    [weight |-> 3, color |-> "#ffffff", dashArray |-> "", fillOpacity |-> "0.7"]

\* the options highlightFeatureFixed sets on a path whose style is style
highlightPatch(style) ==
    [weight |-> 3, color |-> "#ffffff", dashArray |-> "", fillOpacity |-> style.fillOpacity]

\* the style resetHighlight leaves on feature feat of the layer object that
\* dataLayers holds under layerName
resetHighlightStyle(layerName, feat) ==
    LET style == styles[layerName][feat]
    IN  IF currentThematicAttribute # NULL /\ layerName = "setores"
        THEN LET value == Property(feat, currentThematicAttribute)
                 color == getColorForValue(value, thematicBreaks, thematicColors)
             IN  setStyle(style, [fillColor |-> color, weight |-> 1, opacity |-> 1,
                                  color |-> "#000000", fillOpacity |-> "0.7"])
        ELSE IF layerName = "distritos"
        THEN setStyle(setStyle(style, getFeatureStyle(ConfigColor(layerName))),
                      [color |-> "#000000", weight |-> 2])
        ELSE setStyle(style, getFeatureStyle(ConfigColor(layerName)))

\* mouseover on a feature of the layer object held under layerName and shown
MouseOver(layerName, feat) ==
    /\ hovered = <<>>
    /\ dataLayers[layerName] # 0
    /\ <<layerName, dataLayers[layerName]>> \in onMap
    /\ feat \in DOMAIN styles[layerName]
    /\ styles' = [styles EXCEPT ![layerName][feat] = setStyle(@, highlightPatch(@))]
    /\ hovered' = <<layerName, feat, styles[layerName][feat]>>
    /\ last' = Event("mouseover", layerName, NULL, feat, TRUE, <<>>)
    /\ UNCHANGED <<checked, dataLayers, onMap, pendingToggle, startupPending,
                   geojson, loadingHidden, panelsShown,
                   currentThematicAttribute, thematicBreaks, thematicColors, legend, call>>

\* mouseout of the feature under the pointer
MouseOut ==
    /\ hovered # <<>>
    /\ styles' = [styles EXCEPT ![hovered[1]][hovered[2]] =
                                resetHighlightStyle(hovered[1], hovered[2])]
    /\ hovered' = <<>>
    /\ last' = Event("mouseout", hovered[1], NULL, hovered[2],
                     resetHighlightStyle(hovered[1], hovered[2]) = hovered[3], <<>>)
    /\ UNCHANGED <<checked, dataLayers, onMap, pendingToggle, startupPending,
                   geojson, loadingHidden, panelsShown,
                   currentThematicAttribute, thematicBreaks, thematicColors, legend, call>>

(***************************************************************************)
(* Layer checkboxes                                                        *)
(***************************************************************************)
\* change to checked of a layer that is not loaded: showLoading, and
\* loadLayer passes its guard and starts the fetch
CheckStartLoad(layerName) ==
    /\ ~checked[layerName]
    /\ dataLayers[layerName] = 0
    /\ TotalLoads < MaxLoads
    /\ checked' = [checked EXCEPT ![layerName] = TRUE]
    /\ loadingHidden' = FALSE
    /\ pendingToggle' = [pendingToggle EXCEPT ![layerName] = @ + 1]
    /\ last' = Event("check", layerName, NULL, 0, TRUE, <<>>)
    /\ UNCHANGED <<dataLayers, styles, onMap, startupPending, geojson,
                   panelsShown, currentThematicAttribute, thematicBreaks,
                   thematicColors, legend, hovered, call>>

\* change to checked of a loaded layer: loadLayer returns at its guard and
\* the handler adds the layer, hides the loading indicator, shows the panels
CheckLoaded(layerName) ==
    /\ ~checked[layerName]
    /\ dataLayers[layerName] # 0
    /\ checked' = [checked EXCEPT ![layerName] = TRUE]
    /\ onMap' = onMap \cup {<<layerName, dataLayers[layerName]>>}
    /\ loadingHidden' = TRUE
    /\ panelsShown' = IF layerName = "setores" THEN TRUE ELSE panelsShown
    /\ last' = Event("check", layerName, NULL, 0, TRUE, <<>>)
    /\ UNCHANGED <<dataLayers, styles, pendingToggle, startupPending,
                   geojson, currentThematicAttribute, thematicBreaks, thematicColors,
                   legend, hovered, call>>

\* a toggle handler resumes after its loadLayer succeeded: it adds
\* dataLayers[layerName] to the map, hides the loading indicator, shows the panels
ToggleLoaded(layerName) ==
    /\ pendingToggle[layerName] > 0
    /\ pendingToggle' = [pendingToggle EXCEPT ![layerName] = @ - 1]
    /\ loadLayerBody(layerName)
    /\ onMap' = onMap \cup AddedByLoad(layerName)
                      \cup {<<layerName, NewObject(layerName)>>}
    /\ hovered' = HoverAfterLoad(layerName)
    /\ loadingHidden' = TRUE
    /\ panelsShown' = IF layerName = "setores" THEN TRUE ELSE panelsShown
    /\ last' = Event("toggleLoaded", layerName, NULL, 0, TRUE, <<>>)
    /\ UNCHANGED <<checked, startupPending, currentThematicAttribute,
                   thematicBreaks, thematicColors, legend, call>>

\* the fetch or the parse of a toggle handler's loadLayer failed: loadLayer
\* alerts and rethrows, and the handler ends there
ToggleFailed(layerName) ==
    /\ pendingToggle[layerName] > 0
    /\ pendingToggle' = [pendingToggle EXCEPT ![layerName] = @ - 1]
    /\ last' = Event("toggleFailed", layerName, NULL, 0, FALSE,
                     <<"Erro ao carregar camada", layerName>>)
    /\ UNCHANGED <<checked, dataLayers, styles, onMap, startupPending,
                   geojson, loadingHidden, panelsShown, currentThematicAttribute,
                   thematicBreaks, thematicColors, legend, hovered, call>>

\* an uncheck handler that hides the panels and leaves the thematic mapping
Uncheck_NoReset(layerName) ==
    /\ checked[layerName]
    /\ checked' = [checked EXCEPT ![layerName] = FALSE]
    /\ onMap' = onMap \ {<<layerName, dataLayers[layerName]>>}
    /\ hovered' = IF hovered # <<>> /\ hovered[1] = layerName THEN <<>> ELSE hovered
    /\ panelsShown' = IF layerName = "setores" THEN FALSE ELSE panelsShown
    /\ last' = Event("uncheck", layerName, NULL, 0, TRUE, <<>>)
    /\ UNCHANGED <<dataLayers, pendingToggle, startupPending, geojson,
                   loadingHidden, thematicBreaks, thematicColors,
                   currentThematicAttribute, styles, legend, call>>

\* change to unchecked
Uncheck(layerName) ==
    /\ checked[layerName]
    /\ checked' = [checked EXCEPT ![layerName] = FALSE]
    /\ onMap' = onMap \ {<<layerName, dataLayers[layerName]>>}
    /\ hovered' = IF hovered # <<>> /\ hovered[1] = layerName THEN <<>> ELSE hovered
    /\ IF layerName = "setores"
       THEN /\ panelsShown' = FALSE
            /\ resetThematicMapping
       ELSE UNCHANGED <<panelsShown, currentThematicAttribute, styles, legend>>
    /\ last' = Event("uncheck", layerName, NULL, 0, TRUE, <<>>)
    /\ UNCHANGED <<dataLayers, pendingToggle, startupPending, geojson,
                   loadingHidden, thematicBreaks, thematicColors, call>>

Next ==
    \/ StartupLoaded
    \/ StartupFailed
    \/ \E layerName \in LayerNames : CheckStartLoad(layerName)
    \/ \E layerName \in LayerNames : CheckLoaded(layerName)
    \/ \E layerName \in LayerNames : ToggleLoaded(layerName)
    \/ \E layerName \in LayerNames : ToggleFailed(layerName)
    \/ \E layerName \in LayerNames : Uncheck(layerName)
    \/ \E attribute \in Attributes : Apply(attribute)
    \/ Reset
    \/ \E layerName \in LayerNames : \E feat \in DOMAIN styles[layerName] :
            MouseOver(layerName, feat)
    \/ MouseOut

Spec == Init /\ [][Next]_vars

(***************************************************************************)
(* The thematic engine on a page whose layers are loaded and shown: the    *)
(* state after the startup load, a check of 'setores' and its load.        *)
(***************************************************************************)
ThematicInit ==
    /\ checked = [name \in LayerNames |-> TRUE]
    /\ dataLayers = [name \in LayerNames |-> 1]
    /\ geojson \in RichSectorFiles
    /\ styles = [name \in LayerNames |->
                    [f \in FeaturesOf(name, geojson) |-> InitialStyle(name)]]
    /\ onMap = {<<name, 1>> : name \in LayerNames}
    /\ pendingToggle = [name \in LayerNames |-> 0]
    /\ startupPending = FALSE
    /\ loadingHidden = TRUE
    /\ panelsShown = TRUE
    /\ currentThematicAttribute = NULL
    /\ thematicBreaks = <<>>
    /\ thematicColors = <<>>
    /\ legend = [shown |-> FALSE, title |-> <<>>, entries |-> <<>>]
    /\ hovered = <<>>
    /\ last = [op |-> "toggleLoaded", layer |-> "setores", attr |-> NULL, feat |-> 0,
               ok |-> TRUE, alerts |-> <<>>,
               before |-> [op |-> "other", attr |-> NULL, ok |-> TRUE]]
    /\ call = NoCall

ThematicNext ==
    \/ \E attribute \in Attributes : Apply(attribute)
    \/ Reset
    \/ \E feat \in DOMAIN styles["setores"] : MouseOver("setores", feat)
    \/ MouseOut

SpecThematic == ThematicInit /\ [][ThematicNext]_vars

(***************************************************************************)
(* The pure functions called on their own: the classifier on any sorted    *)
(* input and class count, the color mapper on any value, ascending breaks  *)
(* and index-aligned palette.                                              *)
(***************************************************************************)
\* the ascending sequences of n numbers
SortedInputs(n) ==
    {[i \in 1..n |-> Num(f[i])] :
        f \in {g \in [1..n -> 1..3] : \A i \in 1..(n - 1) : g[i] <= g[i + 1]}}

\* the values handed to the color mapper
MapperValues ==
    {Undef, Null, NaN, Num(0), Num(1), Num(2), Num(3), Num(4),
     Str(<<>>), Str(<<"2">>), Str(<<"2", "a">>), Str(<<" ", "3">>)}

\* a palette of k colors
SamplePalette(k) ==
    SubSeq(Palette \o <<"#800026", "#4d0018", "#33000f">>, 1, k)

\* the ten values 10, 20, ..., 100
TenValues == [i \in 1..10 |-> Num(10 * i)]

\* the numeric values of the features of a layer, in feature order
ValueLists == UNION {[1..n -> {Num(1), Num(2), Num(3)}] : n \in 1..MaxLen}

\* the calls to make, with their arguments
PendingCalls ==
    {[NoCall EXCEPT !.fn = "calculateJenks", !.values = values, !.classes = classes] :
        values \in UNION {SortedInputs(n) : n \in 1..MaxLen} \cup {TenValues},
        classes \in 1..MaxK}
    \cup
    {[NoCall EXCEPT !.fn = "getColorForValue", !.value = value, !.breaks = breaks,
                    !.colors = SamplePalette(Len(breaks))] :
        breaks \in UNION {SortedInputs(k) : k \in 1..MaxLen}, value \in MapperValues}
    \cup
    {[NoCall EXCEPT !.fn = "classify", !.values = values] : values \in ValueLists}

PureInit == AppInit /\ checked["distritos"] /\ call \in PendingCalls

CallJenks ==
    /\ call.fn = "calculateJenks"
    /\ ~call.done
    /\ call' = [call EXCEPT !.result = calculateJenks(call.values, call.classes),
                            !.done = TRUE]
    /\ UNCHANGED appVars

CallColor ==
    /\ call.fn = "getColorForValue"
    /\ ~call.done
    /\ call' = [call EXCEPT !.color = getColorForValue(call.value, call.breaks, call.colors),
                            !.done = TRUE]
    /\ UNCHANGED appVars

\* steps 2 to 4 of applyThematicMapping on the values of the features: sort,
\* classify into 5 classes, take the palette, color every value
CallClassify ==
    /\ call.fn = "classify"
    /\ ~call.done
    /\ LET breaks == calculateJenks(SortAscending(call.values), Classes)
       IN  call' = [call EXCEPT
                       !.classes = Classes,
                       !.breaks = breaks,
                       !.colors = Palette,
                       !.fills = [i \in 1..Len(call.values) |->
                                     getColorForValue(call.values[i], breaks, Palette)],
                       !.done = TRUE]
    /\ UNCHANGED appVars

PureNext == CallJenks \/ CallColor \/ CallClassify

SpecPure == PureInit /\ [][PureNext]_vars

(***************************************************************************)
(* Properties                                                              *)
(***************************************************************************)
Range(f) == {f[x] : x \in DOMAIN f}

SectorStyle(feat) == styles["setores"][feat]

\* C1: an applyThematicMapping that finds no numerically coercible value
\* leaves currentThematicAttribute, thematicBreaks and thematicColors as
\* they were before the call.
C1_NoDataLeavesThematicState ==
    [][(last'.op = "apply" /\ last'.alerts = <<NoDataAlert>>)
          => UNCHANGED <<currentThematicAttribute, thematicBreaks, thematicColors>>]_vars

\* C2: for a non-empty ascending input and k >= 1, calculateJenks returns
\* exactly k breaks, all numbers, non-decreasing, the last one the maximum
\* of the input.
C2_JenksShape ==
    (call.fn = "calculateJenks" /\ call.done) =>
        /\ Len(call.result) = call.classes
        /\ \A i \in 1..Len(call.result) : call.result[i].t = "num"
        /\ \A i \in 1..(Len(call.result) - 1) : call.result[i].n <= call.result[i + 1].n
        /\ \A i \in 1..Len(call.values) :
              call.values[i].n <= call.result[Len(call.result)].n
        /\ call.result[Len(call.result)] \in Range(call.values)

C2_Witness ==
    /\ call.fn = "calculateJenks" /\ call.done
    /\ call.values = <<Num(1), Num(2), Num(2), Num(3)>>
    /\ call.classes = 3
    /\ call.result = <<Num(2), Num(2), Num(3)>>

\* C3: with ascending breaks and a palette of the same length k,
\* getColorForValue returns palette[i] for the smallest i with
\* value <= breaks[i], palette[k-1] when the value exceeds every break, and
\* for null, undefined and NaN the no-data color '#ccc', which is none of
\* the palette colors.
C3_ColorMapper ==
    (call.fn = "getColorForValue" /\ call.done) =>
        /\ call.value.t \in {"undefined", "null", "NaN"} =>
              /\ call.color = "#ccc"
              /\ call.color \notin Range(call.colors) \cup Range(Palette)
        /\ call.value.t = "num" =>
              \/ \E i \in 1..Len(call.breaks) :
                    /\ call.value.n <= call.breaks[i].n
                    /\ \A j \in 1..(i - 1) : call.value.n > call.breaks[j].n
                    /\ call.color = call.colors[i]
              \/ /\ \A j \in 1..Len(call.breaks) : call.value.n > call.breaks[j].n
                 /\ call.color = call.colors[Len(call.colors)]

C3_Witness ==
    /\ call.fn = "getColorForValue" /\ call.done
    /\ call.value = Num(2)
    /\ call.breaks = <<Num(1), Num(2), Num(2), Num(3)>>
    /\ call.color = "#fecc5c"

\* C4: while an attribute is active and was applied, the fill color that
\* resetHighlight restores on a census-sector feature is the fill color
\* applyThematicMapping assigns to that feature, whatever kind of value the
\* feature has.
C4_HoverRestoresAppliedFill ==
    (/\ last.op = "mouseout" /\ last.layer = "setores"
     /\ currentThematicAttribute # NULL
     /\ legend.shown /\ legend.title = <<"Legenda: ", currentThematicAttribute>>)
        => SectorStyle(last.feat).fillColor =
              ThematicStyle(last.feat, currentThematicAttribute,
                            thematicBreaks, thematicColors).fillColor

\* the loadLayer calls for layerName that await their fetch or parse
InFlight(layerName) ==
    pendingToggle[layerName]
        + (IF layerName = "distritos" /\ startupPending THEN 1 ELSE 0)

\* C5: a layer is not loaded again while its load is in progress or done:
\* for every layer name, the loads in flight and the layer objects created
\* number at most one.
C5_LoadedOnce ==
    \A layerName \in LayerNames : InFlight(layerName) + dataLayers[layerName] <= 1

\* C6: a failed load is reported, leaves the loading indicator hidden (read
\* here in the claim's favour: once no other load is in flight), adds
\* nothing to dataLayers nor to the map, and starts no new load.
C6_LoadFailure ==
    [][(last'.op \in {"startupFailed", "toggleFailed"})
          => /\ last'.alerts # <<>>
             /\ (\A layerName \in LayerNames : InFlight(layerName)' = 0) => loadingHidden'
             /\ UNCHANGED <<dataLayers, onMap>>
             /\ \A layerName \in LayerNames : InFlight(layerName)' <= InFlight(layerName)]_vars

\* C7: after resetThematicMapping with the census-sector layer loaded, no
\* attribute is active and the stored breaks and palette are empty.
C7_ResetEmptiesThematicState ==
    (last.op = "reset" /\ last.ok) =>
        /\ currentThematicAttribute = NULL
        /\ thematicBreaks = <<>>
        /\ thematicColors = <<>>

\* C8: a mouseout right after the mouseover of the same feature leaves the
\* feature with the style it had before the mouseover.
C8_HoverRoundTrip ==
    (last.op = "mouseout" /\ last.before.op = "mouseover") => last.ok

\* C9: after a successful apply of B right after a successful apply of A,
\* the active attribute is B, the stored breaks are the classifier's for
\* B's values, every sector's fill is the color of its B value under
\* these breaks, and the legend shows B with these breaks.
C9_ApplyAfterApply ==
    (/\ last.op = "apply" /\ last.ok
     /\ last.before.op = "apply" /\ last.before.ok) =>
        LET B == last.attr
            breaksB == calculateJenks(SortAscending(ExtractValues(B)), Classes)
        IN  /\ currentThematicAttribute = B
            /\ thematicBreaks = breaksB
            /\ thematicColors = Palette
            /\ \A f \in DOMAIN geojson :
                  SectorStyle(f).fillColor =
                      getColorForValue(parseFloat(Property(f, B)), breaksB, Palette)
            /\ legend = [shown |-> TRUE, title |-> <<"Legenda: ", B>>,
                         entries |-> legendEntries(breaksB, Palette)]

C9_Witness ==
    /\ last.op = "apply" /\ last.ok /\ last.attr = "v0002"
    /\ last.before.op = "apply" /\ last.before.ok /\ last.before.attr = "v0001"
    /\ thematicBreaks # calculateJenks(SortAscending(ExtractValues("v0001")), Classes)
    /\ \E f \in DOMAIN geojson :
          SectorStyle(f).fillColor #
              getColorForValue(parseFloat(Property(f, "v0001")),
                  calculateJenks(SortAscending(ExtractValues("v0001")), Classes), Palette)

\* C10: after a reset right after a successful apply, every census-sector
\* feature has the default style of the layer: fill and border of the
\* configured color, fill opacity 0.3, weight 2.
C10_ResetRestoresDefault ==
    (last.op = "reset" /\ last.ok /\ last.before.op = "apply" /\ last.before.ok) =>
        \A f \in DOMAIN geojson :
            /\ SectorStyle(f).fillColor = "#f093fb"
            /\ SectorStyle(f).color = "#f093fb"
            /\ SectorStyle(f).fillOpacity = "0.3"
            /\ SectorStyle(f).weight = 2

C10_Witness ==
    /\ last.op = "reset" /\ last.ok /\ last.before.op = "apply" /\ last.before.ok
    /\ hovered # <<>>
    /\ hovered[3].fillColor \in Range(Palette)

\* C11: a resetThematicMapping right after a resetThematicMapping changes
\* nothing: the active attribute stays none, the legend stays hidden, every
\* feature keeps the style the first call left, and so does the rest of the
\* page.
C11_ResetIdempotent ==
    [][(last.op = "reset" /\ last.ok /\ last'.op = "reset")
          => /\ last'.ok
             /\ currentThematicAttribute' = NULL
             /\ ~legend'.shown
             /\ UNCHANGED <<currentThematicAttribute, thematicBreaks, thematicColors,
                            styles, legend, loadingHidden, panelsShown, checked,
                            dataLayers, onMap, hovered>>]_vars

C11_Witness ==
    /\ last.op = "reset" /\ last.ok
    /\ last.before.op = "reset" /\ last.before.ok
    /\ thematicBreaks # <<>>
    /\ hovered # <<>> /\ hovered[1] = "setores"

\* C13: whenever no thematic attribute is active the legend is hidden.
C13_NoAttributeNoLegend ==
    currentThematicAttribute = NULL => ~legend.shown

C13_Witness ==
    /\ currentThematicAttribute = NULL
    /\ last.op = "uncheck" /\ last.layer = "setores"
    /\ last.before.op = "apply" /\ last.before.ok
    /\ legend.title # <<>>

\* a property value that has a numeric reading: a number, or a string that
\* starts, after white space, with a digit
Coercible(v) ==
    \/ v.t = "num"
    \/ v.t = "str" /\ DigitPrefix(TrimLeft(v.s)) # <<>>

\* the number a coercible property value stands for
NumericOf(v) ==
    IF v.t = "num" THEN v ELSE Num(DigitsToNat(DigitPrefix(TrimLeft(v.s))))

\* C12: applyThematicMapping of an attribute that no census-sector feature
\* has a coercible value for, called while no attribute is active, raises
\* the no-valid-data alert, leaves the legend hidden and the loading
\* indicator hidden, and changes no feature's style.
C12_AllMissingApply ==
    [][(/\ last'.op = "apply"
        /\ dataLayers["setores"] # 0
        /\ currentThematicAttribute = NULL
        /\ \A f \in DOMAIN geojson : ~Coercible(Property(f, last'.attr)))
          => /\ last'.alerts = <<NoDataAlert>>
             /\ ~legend'.shown
             /\ loadingHidden'
             /\ styles' = styles]_vars

C12_Witness ==
    /\ last.op = "apply" /\ last.alerts = <<NoDataAlert>>
    /\ last.before.op = "reset" /\ last.before.ok
    /\ Property(1, last.attr) = Undef
    /\ Property(2, last.attr) = Str(<<>>)
    /\ thematicBreaks # <<>>
    /\ ~legend.shown

\* C14: an applyThematicMapping of an attribute that some but not all
\* features have a coercible value for succeeds: the breaks are made of the
\* coercible values only and end at their maximum, every feature with a
\* coercible value has a palette color as fill, never '#ccc', and every
\* other feature has '#ccc'.
C14_PartialMissingApply ==
    (/\ last.op = "apply"
     /\ dataLayers["setores"] # 0
     /\ \E f \in DOMAIN geojson : Coercible(Property(f, last.attr))
     /\ \E f \in DOMAIN geojson : ~Coercible(Property(f, last.attr))) =>
        LET present == {f \in DOMAIN geojson : Coercible(Property(f, last.attr))}
            numbers == {NumericOf(Property(f, last.attr)) : f \in present}
        IN  /\ last.ok /\ last.alerts = <<>>
            /\ currentThematicAttribute = last.attr
            /\ legend.shown
            /\ Len(thematicBreaks) = Classes
            /\ \A i \in 1..Len(thematicBreaks) : thematicBreaks[i] \in numbers
            /\ \A v \in numbers : v.n <= thematicBreaks[Len(thematicBreaks)].n
            /\ \A f \in present :
                  /\ SectorStyle(f).fillColor \in Range(Palette)
                  /\ SectorStyle(f).fillColor # "#ccc"
            /\ \A f \in DOMAIN geojson \ present : SectorStyle(f).fillColor = "#ccc"

C14_Witness ==
    /\ last.op = "apply" /\ last.ok
    /\ Property(1, last.attr) = Undef
    /\ Property(2, last.attr) = Str(<<"1", "a">>)
    /\ SectorStyle(1).fillColor = "#ccc"
    /\ SectorStyle(2).fillColor = "#ffffb2"

\* C15: while dataLayers['setores'] is absent, its load in flight or not,
\* applyThematicMapping and resetThematicMapping change nothing: not the
\* thematic state, nor a feature style, nor the legend, nor the loading
\* indicator.
C15_NotLoadedNoOp ==
    [][(last'.op \in {"apply", "reset"} /\ dataLayers["setores"] = 0)
          => UNCHANGED <<currentThematicAttribute, thematicBreaks, thematicColors,
                         styles, legend, loadingHidden>>]_vars

C15_Witness ==
    /\ last.op = "reset" /\ ~last.ok
    /\ last.before.op = "apply" /\ ~last.before.ok
    /\ dataLayers["setores"] = 0
    /\ pendingToggle["setores"] > 0
    /\ dataLayers["distritos"] # 0
    /\ ~loadingHidden

\* C16: for an ascending input of n values and k classes, break i of
\* calculateJenks (1 <= i <= k-1) is the value at 0-based index
\* i * floor(n/k) and break k is the value at index n-1; the values
\* 10, 20, ..., 100 with k = 5 give 30, 50, 70, 90, 100.  The breaks are a
\* function of the input and k alone.
C16_IndexSteppedQuantiles ==
    (call.fn = "calculateJenks" /\ call.done) =>
        LET n == Len(call.values)
            k == call.classes
        IN  /\ Len(call.result) = k
            /\ \A i \in 1..(k - 1) : call.result[i] = call.values[i * (n \div k) + 1]
            /\ call.result[k] = call.values[n]
            /\ (call.values = TenValues /\ k = 5) =>
                  call.result = <<Num(30), Num(50), Num(70), Num(90), Num(100)>>

C16_Witness ==
    /\ call.fn = "calculateJenks" /\ call.done
    /\ call.values = TenValues /\ call.classes = 5
    /\ call.result = <<Num(30), Num(50), Num(70), Num(90), Num(100)>>

\* C20: for n >= 1 values and k >= 1 classes no break of calculateJenks is
\* undefined: every break is a value of the input; when n < k the first
\* k-1 breaks are the minimum and the last is the maximum.
C20_BreaksInRange ==
    (call.fn = "calculateJenks" /\ call.done) =>
        LET n == Len(call.values)
            k == call.classes
        IN  /\ \A i \in 1..Len(call.result) :
                  /\ call.result[i] # Undef
                  /\ call.result[i] \in Range(call.values)
            /\ n < k =>
                  /\ \A i \in 1..(k - 1) :
                        /\ call.result[i] = call.values[1]
                        /\ \A j \in 1..n : call.result[i].n <= call.values[j].n
                  /\ \A j \in 1..n : call.values[j].n <= call.result[k].n

C20_Witness ==
    /\ call.fn = "calculateJenks" /\ call.done
    /\ call.values = <<Num(1), Num(3)>> /\ call.classes = 5
    /\ call.result = <<Num(1), Num(1), Num(1), Num(1), Num(3)>>

\* C17: after a successful applyThematicMapping the legend is displayed,
\* its title names the applied attribute, and it has one entry per class:
\* entry i runs from the break before it (0 for the first entry) to break
\* i and has color i of the palette.
C17_LegendAfterApply ==
    (last.op = "apply" /\ last.ok) =>
        /\ legend.shown
        /\ legend.title = <<"Legenda: ", last.attr>>
        /\ Len(legend.entries) = Classes
        /\ Len(thematicBreaks) = Classes
        /\ \A i \in 1..Classes :
              /\ legend.entries[i].start =
                    toLocaleString(IF i = 1 THEN Num(0) ELSE thematicBreaks[i - 1])
              /\ legend.entries[i].end = toLocaleString(thematicBreaks[i])
              /\ legend.entries[i].color = Palette[i]

C17_Witness ==
    /\ last.op = "apply" /\ last.ok /\ last.attr = "v0002"
    /\ legend.shown
    /\ thematicBreaks = <<Num(10), Num(10), Num(10), Num(10), Num(15)>>
    /\ legend.entries[1] = [start |-> <<"0">>, end |-> <<"1", "0">>, color |-> "#ffffb2"]
    /\ legend.entries[5] = [start |-> <<"1", "0">>, end |-> <<"1", "5">>, color |-> "#bd0026"]

C19_ThematicStateConsistent ==
    (currentThematicAttribute # NULL) =>
        /\ thematicBreaks # <<>>
        /\ thematicBreaks =
              calculateJenks(SortAscending(ExtractValues(currentThematicAttribute)),
                             Classes)
        /\ Len(thematicColors) = Len(thematicBreaks)

\* the layer objects of layerName that are displayed on the map
Displayed(layerName) == {o \in onMap : o[1] = layerName}

\* C21: unchecking the loaded census-sector layer resets the thematic
\* mapping: right after the handler no attribute is active, the legend is
\* hidden and every feature of the layer has the default style; a re-check
\* that follows shows the layer with these styles.
C21_UncheckResets ==
    [][/\ (last'.op = "uncheck" /\ last'.layer = "setores" /\ dataLayers["setores"] # 0)
            => /\ currentThematicAttribute' = NULL
               /\ ~legend'.shown
               /\ \A f \in DOMAIN geojson :
                     styles'["setores"][f] = getFeatureStyle("#f093fb")
       /\ (/\ last.op = "uncheck" /\ last.layer = "setores"
           /\ last'.op = "check" /\ last'.layer = "setores"
           /\ dataLayers["setores"] # 0)
            => /\ <<"setores", dataLayers["setores"]>> \in onMap'
               /\ currentThematicAttribute' = NULL
               /\ ~legend'.shown
               /\ \A f \in DOMAIN geojson :
                     styles'["setores"][f] = getFeatureStyle("#f093fb")]_vars

C21_Witness ==
    /\ last.op = "uncheck" /\ last.layer = "setores"
    /\ last.before.op = "apply" /\ last.before.ok
    /\ dataLayers["setores"] # 0
    /\ currentThematicAttribute = NULL
    /\ legend.title # <<>> /\ ~legend.shown
    /\ thematicBreaks # <<>>

\* C22: once no load is in flight, a loaded layer is displayed on the map
\* exactly when its checkbox is checked, and the panels of 'setores' are
\* shown only while its checkbox is checked.
C22_DisplayedIffChecked ==
    (\A layerName \in LayerNames : InFlight(layerName) = 0) =>
        /\ \A layerName \in LayerNames :
              dataLayers[layerName] # 0 =>
                  (Displayed(layerName) # {} <=> checked[layerName])
        /\ panelsShown => checked["setores"]

\* C23: every census-sector feature of the layer that is not under the
\* pointer has, while an attribute is active, the fill getColorForValue
\* gives its value of that attribute under the stored breaks and palette,
\* and, while no attribute is active, the default fill of the layer.
C23_FillFollowsThematicState ==
    \A f \in DOMAIN styles["setores"] :
        (hovered = <<>> \/ <<hovered[1], hovered[2]>> # <<"setores", f>>) =>
            SectorStyle(f).fillColor =
                IF currentThematicAttribute # NULL
                THEN getColorForValue(Property(f, currentThematicAttribute),
                                      thematicBreaks, thematicColors)
                ELSE "#f093fb"

\* the index of a palette color
PaletteIndex(color) == CHOOSE i \in 1..Len(Palette) : Palette[i] = color

\* C24: the classes a successful apply assigns are monotone in the value:
\* of two features with numeric values v1 <= v2 the palette index of the
\* first is at most that of the second, repeated breaks included.
C24_ClassMonotone ==
    (call.fn = "classify" /\ call.done) =>
        /\ \A i \in 1..Len(call.fills) : call.fills[i] \in Range(Palette)
        /\ \A i, j \in 1..Len(call.values) :
              call.values[i].n <= call.values[j].n =>
                  PaletteIndex(call.fills[i]) <= PaletteIndex(call.fills[j])

C24_Witness ==
    /\ call.fn = "classify" /\ call.done
    /\ call.values = <<Num(2), Num(1), Num(2), Num(3), Num(2), Num(2)>>
    /\ call.breaks = <<Num(2), Num(2), Num(2), Num(2), Num(3)>>
    /\ call.fills = <<"#ffffb2", "#ffffb2", "#ffffb2", "#bd0026", "#ffffb2", "#ffffb2">>

====
